---- MODULE Spec2Model ----
(***************************************************************************)
(* Model of src/main.py: the POST /api/contact flow (validation boundary,  *)
(* persist attempt, SMTP dispatch, response composition).                  *)
(*                                                                         *)
(* One request is in flight at a time; the configuration is read once at   *)
(* import time (Init) and never changes afterwards.  The external          *)
(* collaborators (create_document, smtplib) are modelled by their          *)
(* outcomes: each call either returns or raises an exception whose text is *)
(* drawn from ErrTexts.                                                    *)
(***************************************************************************)
EXTENDS Integers, Sequences, FiniteSets, TLC

\* ------------------------------------------------------------------ bounds
\* longest e-mail string (in characters) a request may carry
MaxEmailLen == 5

\* ------------------------------------------------------- program constants
ImplicitTlsPort == 465
DefaultSmtpPort == 587

\* --------------------------------------------------------- optional values
\* Python's `str | None`: None, or a present string / sequence
None == [some |-> FALSE, val |-> ""]
Some(s) == [some |-> TRUE, val |-> s]
NoEmail == [some |-> FALSE, val |-> <<>>]

\* Python truthiness of a `str | None` (None and "" are falsy)
Truthy(o) == o.some /\ o.val # ""

\* ----------------------------------------------------------- configuration
\* values an environment variable read with os.getenv(NAME) may have
EnvVals == {None, Some(""), Some("set")}

\* values of int(os.getenv("SMTP_PORT", "587"))
Ports == {ImplicitTlsPort, DefaultSmtpPort, 25}

\* an address with a character outside ASCII (stands for "jos\xe9@x.com")
NonAsciiAddr == "jos<e9>@x.com"

\* values of the FROM_EMAIL environment variable
FromEnvVals == {None, Some(NonAsciiAddr)}

TARGET_EMAIL == "shreyash@certiswift.in"

\* FROM_EMAIL = os.getenv("FROM_EMAIL", SMTP_USER or "noreply@portfolio.local")
FromEmailOf(fromEnv, user) ==
    IF fromEnv.some THEN fromEnv.val
    ELSE IF Truthy(user) THEN user.val ELSE "noreply@portfolio.local"

\* address.encode('ascii') inside email.utils.formataddr succeeds
IsAscii(addr) == addr # NonAsciiAddr

\* ------------------------------------------------------------------ inputs
Chars == {"a", "@", "."}

\* every e-mail string of at most MaxEmailLen characters
EmailStrings == UNION {[1..n -> Chars] : n \in 0..MaxEmailLen}

\* request bodies: name and email may be missing, name may be empty
RawPayloads ==
    [name : {None, Some(""), Some("Ann")},
     email : {NoEmail} \cup {Some(e) : e \in EmailStrings},
     message : {Some("hi")}]

NoPayload == [name |-> None, email |-> NoEmail, message |-> None]

\* texts str(e) of an exception raised by the mail transport
ErrTexts == {"", "(535, b'Authentication failed')", "SMTP not configured"}

\* a dot-atom: non-empty, no leading, trailing or doubled dot, no "@"
DotAtomOK(s) ==
    /\ Len(s) > 0
    /\ s[1] # "."
    /\ s[Len(s)] # "."
    /\ \A i \in 1..Len(s) : s[i] # "@"
    /\ \A i \in 1..(Len(s) - 1) : ~(s[i] = "." /\ s[i + 1] = ".")

\* EmailStr: local@domain, both dot-atoms, the domain with a period
EmailSyntaxOK(e) ==
    \E i \in 1..Len(e) :
        /\ e[i] = "@"
        /\ DotAtomOK(SubSeq(e, 1, i - 1))
        /\ DotAtomOK(SubSeq(e, i + 1, Len(e)))
        /\ \E j \in (i + 1)..Len(e) : e[j] = "."

\* a faulty variant: `email: str` instead of `email: EmailStr`
Validate_NoEmailCheck(raw) ==
    raw.name.some /\ raw.email.some /\ raw.message.some

\* a faulty variant: `name: constr(min_length=1)`
Validate_NonEmptyName(raw) ==
    /\ Truthy(raw.name)
    /\ raw.email.some
    /\ EmailSyntaxOK(raw.email.val)
    /\ raw.message.some

\* ContactIn: name: str, email: EmailStr, message: str, all required
Validate(raw) ==
    /\ raw.name.some
    /\ raw.email.some
    /\ EmailSyntaxOK(raw.email.val)
    /\ raw.message.some

\* ------------------------------------------------------------------- state
VARIABLES
    SMTP_HOST, SMTP_PORT, SMTP_USER, SMTP_PASS, FROM_EMAIL,  \* configuration
    pc,         \* position of the request in flight
    payload,    \* the request body
    trace,      \* calls made for the request in flight, in order
    persisted,  \* "none", "ok" or "raised": outcome of create_document
    stored,     \* the document create_document stored for this request
    logged,     \* whether "DB save error" was ever printed (process output)
    conn,       \* "none", "open" or "closed": the smtplib connection
    exc,        \* the exception pending inside send_email's try block
    result,     \* what send_email returned
    response    \* the HTTP response

cfgVars == <<SMTP_HOST, SMTP_PORT, SMTP_USER, SMTP_PASS, FROM_EMAIL>>
vars == <<SMTP_HOST, SMTP_PORT, SMTP_USER, SMTP_PASS, FROM_EMAIL, pc, payload,
          trace, persisted, stored, logged, conn, exc, result, response>>

NoResult == [returned |-> FALSE, sent |-> FALSE, error |-> None]
NoResponse == [status |-> 0]

\* "SSL" if SMTP_PORT == 465 else "STARTTLS"
SmtpMode(port) == IF port = ImplicitTlsPort THEN "SSL" ELSE "STARTTLS"

\* a faulty variant: `if SMTP_PORT != 587`
UsesSSL_Not587(port) == port # DefaultSmtpPort

\* if SMTP_PORT == 465
UsesSSL(port) == port = ImplicitTlsPort

\* a faulty variant: `if not SMTP_HOST`
Configured_HostOnly(host, user, pass) == Truthy(host)

\* SMTP_HOST and SMTP_USER and SMTP_PASS
Configured(host, user, pass) == Truthy(host) /\ Truthy(user) /\ Truthy(pass)

\* a faulty variant: `return False, None`
NotConfiguredResult_NoError == [returned |-> TRUE, sent |-> FALSE, error |-> None]

\* return False, "SMTP not configured"
NotConfiguredResult ==
    [returned |-> TRUE, sent |-> FALSE, error |-> Some("SMTP not configured")]

\* return True, None
SuccessResult == [returned |-> TRUE, sent |-> TRUE, error |-> None]

\* except Exception as e: return False, str(e)
ExceptResult(text) == [returned |-> TRUE, sent |-> FALSE, error |-> Some(text)]

NoteSent == "Stored in DB; email sent."
NoteNotConfigured == "Stored in DB; email not sent (SMTP not configured)."
NoteFailed == "Stored in DB; email attempt failed."

\* the note chosen from (sent, error)
NoteFor(sent, error) ==
    IF sent THEN NoteSent
    ELSE IF error = Some("SMTP not configured") THEN NoteNotConfigured
    ELSE NoteFailed

\* the dict submit_contact returns
ComposeResponse(sent, error, port, from) ==
    [ok |-> TRUE,
     email_dispatched |-> sent,
     target |-> TARGET_EMAIL,
     note |-> NoteFor(sent, error),
     error |-> error,
     smtp_mode |-> SmtpMode(port),
     from_email |-> IF sent THEN Some(from) ELSE None]

\* ------------------------------------------------------------------- Init
Init ==
    /\ SMTP_HOST \in EnvVals
    /\ SMTP_USER \in EnvVals
    /\ SMTP_PASS \in EnvVals
    /\ SMTP_PORT \in Ports
    /\ \E f \in FromEnvVals : FROM_EMAIL = FromEmailOf(f, SMTP_USER)
    /\ pc = "idle"
    /\ payload = NoPayload
    /\ trace = <<>>
    /\ persisted = "none"
    /\ stored = None
    /\ logged = FALSE
    /\ conn = "none"
    /\ exc = None
    /\ result = NoResult
    /\ response = NoResponse

\* ---------------------------------------------------------------- actions
\* POST /api/contact arrives; the framework validates the body against
\* ContactIn and answers 422 itself when it does not validate
Receive ==
    /\ pc = "idle"
    /\ \E raw \in RawPayloads :
        /\ payload' = raw
        /\ IF Validate(raw)
           THEN pc' = "persist" /\ response' = response
           ELSE pc' = "done" /\ response' = [status |-> 422]
    /\ UNCHANGED <<cfgVars, trace, persisted, stored, logged, conn, exc, result>>

\* a faulty variant: no try/except around create_document
Persist_Abort ==
    /\ pc = "persist"
    /\ trace' = Append(trace, "create_document")
    /\ \E ok \in BOOLEAN :
        IF ok
        THEN /\ persisted' = "ok"
             /\ stored' = Some(payload)
             /\ pc' = "send_email"
             /\ response' = response
        ELSE /\ persisted' = "raised"
             /\ stored' = stored
             /\ pc' = "done"
             /\ response' = [status |-> 500]
    /\ UNCHANGED <<cfgVars, payload, logged, conn, exc, result>>

\* try: create_document("contact", payload.model_dump())
\* except Exception as e: print("DB save error:", e)
Persist ==
    /\ pc = "persist"
    /\ trace' = Append(trace, "create_document")
    /\ \E ok \in BOOLEAN :
        IF ok
        THEN persisted' = "ok" /\ stored' = Some(payload) /\ logged' = logged
        ELSE persisted' = "raised" /\ stored' = stored /\ logged' = TRUE
    /\ pc' = "send_email"
    /\ UNCHANGED <<cfgVars, payload, conn, exc, result, response>>

\* send_email is called; the configuration check
SendEmailEntry ==
    /\ pc = "send_email"
    /\ trace' = Append(trace, "send_email")
    /\ IF Configured(SMTP_HOST, SMTP_USER, SMTP_PASS)
       THEN pc' = "build" /\ result' = result
       ELSE pc' = "compose" /\ result' = NotConfiguredResult
    /\ UNCHANGED <<cfgVars, payload, persisted, stored, logged, conn, exc, response>>

\* the message is built before the try block: formataddr raises
\* UnicodeEncodeError on an address that is not ASCII, and nothing catches
\* it in send_email or submit_contact, so the framework answers 500
BuildMessage ==
    /\ pc = "build"
    /\ IF IsAscii(FROM_EMAIL)
       THEN pc' = "connect" /\ response' = response
       ELSE pc' = "done" /\ response' = [status |-> 500]
    /\ UNCHANGED <<cfgVars, payload, trace, persisted, stored, logged, conn, exc, result>>

\* smtplib.SMTP_SSL(...) or smtplib.SMTP(...): the constructor connects; when
\* it raises, the with block is never entered
Connect ==
    /\ pc = "connect"
    /\ trace' = Append(trace, IF UsesSSL(SMTP_PORT) THEN "SMTP_SSL" ELSE "SMTP")
    /\ \/ /\ conn' = "open"
          /\ pc' = IF UsesSSL(SMTP_PORT) THEN "login" ELSE "ehlo"
          /\ result' = result
       \/ \E text \in ErrTexts :
          /\ conn' = conn
          /\ pc' = "compose"
          /\ result' = ExceptResult(text)
    /\ UNCHANGED <<cfgVars, payload, persisted, stored, logged, exc, response>>

\* one call on the open connection: it returns and control moves to `next`,
\* or it raises and control leaves the with block
ServerCall(at, event, next) ==
    /\ pc = at
    /\ trace' = Append(trace, event)
    /\ \/ pc' = next /\ exc' = exc
       \/ \E text \in ErrTexts : pc' = "exit" /\ exc' = Some(text)
    /\ UNCHANGED <<cfgVars, payload, persisted, stored, logged, conn, result, response>>

\* server.ehlo()
Ehlo == ServerCall("ehlo", "ehlo", "starttls")

\* server.starttls()
Starttls == ServerCall("starttls", "starttls", "login")

\* server.login(SMTP_USER, SMTP_PASS)
Login == ServerCall("login", "login", "sendmail")

\* server.sendmail(FROM_EMAIL, [TARGET_EMAIL], msg.as_string())
Sendmail == ServerCall("sendmail", "sendmail", "exit")

\* a faulty variant: no with statement, server.quit() after sendmail only
WithExit_LeakOnError ==
    /\ pc = "exit"
    /\ IF exc.some
       THEN conn' = conn /\ trace' = trace /\ result' = ExceptResult(exc.val)
       ELSE /\ conn' = "closed"
            /\ trace' = Append(trace, "close")
            /\ result' = SuccessResult
    /\ exc' = None
    /\ pc' = "compose"
    /\ UNCHANGED <<cfgVars, payload, persisted, stored, logged, response>>

\* the with block is left: SMTP.__exit__ sends QUIT and closes the
\* connection; a QUIT that is refused raises in place of what was pending.
\* Then send_email returns (True, None), or the except clause returns
\* (False, str(e))
WithExit ==
    /\ pc = "exit"
    /\ conn' = "closed"
    /\ trace' = Append(trace, "close")
    /\ \/ result' = (IF exc.some THEN ExceptResult(exc.val) ELSE SuccessResult)
       \/ \E text \in ErrTexts : result' = ExceptResult(text)
    /\ exc' = None
    /\ pc' = "compose"
    /\ UNCHANGED <<cfgVars, payload, persisted, stored, logged, response>>

\* note = ...; return {...}
Compose ==
    /\ pc = "compose"
    /\ response' = [status |-> 200,
                    body |-> ComposeResponse(result.sent, result.error,
                                             SMTP_PORT, FROM_EMAIL)]
    /\ pc' = "done"
    /\ UNCHANGED <<cfgVars, payload, trace, persisted, stored, logged, conn, exc, result>>

\* the response has been sent; the next request starts from a clean slate
\* (what was printed stays printed)
Finish ==
    /\ pc = "done"
    /\ pc' = "idle"
    /\ payload' = NoPayload
    /\ trace' = <<>>
    /\ persisted' = "none"
    /\ stored' = None
    /\ conn' = "none"
    /\ exc' = None
    /\ result' = NoResult
    /\ response' = NoResponse
    /\ UNCHANGED <<cfgVars, logged>>

Next ==
    \/ Receive
    \/ Persist
    \/ SendEmailEntry
    \/ BuildMessage
    \/ Connect
    \/ Ehlo
    \/ Starttls
    \/ Login
    \/ Sendmail
    \/ WithExit
    \/ Compose
    \/ Finish

Spec == Init /\ [][Next]_vars

\* ------------------------------------------------- vocabulary of the claims
Called(ev) == \E i \in DOMAIN trace : trace[i] = ev
TimesCalled(ev) == Cardinality({i \in DOMAIN trace : trace[i] = ev})
\* position of the first call of ev in the trace, 0 when it was never called
Pos(ev) == IF Called(ev) THEN CHOOSE i \in DOMAIN trace :
                                  /\ trace[i] = ev
                                  /\ \A j \in 1..(i - 1) : trace[j] # ev
           ELSE 0
Accepted == pc # "idle" /\ Validate(payload)
CredsPresent == Truthy(SMTP_HOST) /\ Truthy(SMTP_USER) /\ Truthy(SMTP_PASS)
ConnectionOpened == Called("SMTP_SSL") \/ Called("SMTP")
Answered200 == pc = "done" /\ response.status = 200

\* C1: every valid submission, whatever the persistence and dispatch
\* outcomes, completes with a response whose ok field is true.
C1_OkAlwaysTrue ==
    (pc = "done" /\ Accepted) => (response.status = 200 /\ response.body.ok)

\* C2: a submission whose email is syntactically invalid is rejected with a
\* client error before the handler runs: no persist attempt and no dispatch
\* attempt is ever made for it.
C2_InvalidEmailRejected ==
    (pc # "idle" /\ payload.email.some /\ ~EmailSyntaxOK(payload.email.val))
        => /\ pc = "done"
           /\ response.status = 422
           /\ trace = <<>>
           /\ persisted = "none"
           /\ ~stored.some
           /\ conn = "none"
           /\ ~result.returned

C2_Witness ==
    /\ pc = "done"
    /\ payload.name = Some("Ann")
    /\ payload.email = Some(<<"a", "@", "a">>)
    /\ response.status = 422

\* C3: the persist attempt comes first and the dispatch attempt second, a
\* persist attempt that raises does not prevent the dispatch attempt (it is
\* only logged), and the response to a request whose persist attempt raised
\* still says ok and "Stored in DB".
C3_PersistThenDispatch ==
    /\ Called("send_email") => (trace[1] = "create_document" /\ persisted # "none")
    /\ (pc = "done" /\ Accepted)
          => /\ Len(trace) >= 2
             /\ trace[1] = "create_document"
             /\ trace[2] = "send_email"
             /\ TimesCalled("create_document") = 1
             /\ TimesCalled("send_email") = 1
    /\ persisted = "raised" => (logged /\ ~stored.some)
    /\ (Answered200 /\ persisted = "raised")
          => /\ response.body.ok
             /\ response.body.note \in {NoteSent, NoteNotConfigured, NoteFailed}

C3_Witness ==
    /\ pc = "done"
    /\ persisted = "raised"
    /\ Called("sendmail")
    /\ response.status = 200
    /\ response.body.email_dispatched

\* C4: when host, user or password is absent or empty, a valid submission
\* opens no connection, send_email returns (False, "SMTP not configured"),
\* and the response has email_dispatched false and the "not configured" note.
C4_UnconfiguredNoNetwork ==
    ~CredsPresent =>
        /\ conn = "none"
        /\ ~ConnectionOpened
        /\ Called("send_email") =>
              /\ result = [returned |-> TRUE, sent |-> FALSE,
                           error |-> Some("SMTP not configured")]
              /\ pc \in {"compose", "done"}
        /\ (pc = "done" /\ Accepted) =>
              /\ response.status = 200
              /\ response.body.email_dispatched = FALSE
              /\ response.body.note = NoteNotConfigured

C4_Witness ==
    /\ pc = "done"
    /\ Accepted
    /\ Truthy(SMTP_HOST)
    /\ SMTP_USER = Some("")
    /\ Truthy(SMTP_PASS)
    /\ response.status = 200

\* C5: on port 465 the connection is opened with implicit TLS and STARTTLS
\* is never issued; on every other port a plain connection is opened and
\* EHLO and STARTTLS are issued, in that order, before login and before the
\* message is submitted.
C5_TransportSelection ==
    /\ SMTP_PORT = 465 =>
          /\ ~Called("SMTP") /\ ~Called("ehlo") /\ ~Called("starttls")
          /\ (Called("login") \/ Called("sendmail")) => Called("SMTP_SSL")
    /\ SMTP_PORT # 465 =>
          /\ ~Called("SMTP_SSL")
          /\ (Called("login") \/ Called("sendmail")) =>
                /\ 0 < Pos("SMTP")
                /\ Pos("SMTP") < Pos("ehlo")
                /\ Pos("ehlo") < Pos("starttls")
                /\ Pos("starttls") < Pos("login")
          /\ Called("sendmail") => Pos("login") < Pos("sendmail")

C5_Witness ==
    /\ SMTP_PORT = 25
    /\ Called("starttls")
    /\ Called("sendmail")
    /\ pc = "done"

\* C6: send_email never raises: a failure at any step of a configured
\* attempt makes it return (False, <error text>) with a non-null error, and
\* it returns (True, None) only when every step, the submission included,
\* succeeded.
C6_SendEmailNeverRaises ==
    (Called("send_email") /\ pc \in {"compose", "done"}) =>
        /\ result.returned
        /\ result.sent => (~result.error.some /\ Called("sendmail"))
        /\ ~result.sent => result.error.some

\* C7 as claimed: the error of the dispatch result (and of the response) is
\* present only when sent is false and a configured attempt failed; when the
\* transport is not configured it is absent.
C7_ErrorOnlyOnConfiguredFailure ==
    /\ (result.returned /\ result.error.some)
          => (~result.sent /\ CredsPresent /\ ConnectionOpened)
    /\ (Answered200 /\ response.body.error.some)
          => (~response.body.email_dispatched /\ CredsPresent /\ ConnectionOpened)

\* C7 as amended: the error of the dispatch result (and the response's error
\* built from it) is present exactly when sent is false: it is the fixed text
\* "SMTP not configured" when the transport is not configured, and the failed
\* attempt's error text when a configured attempt failed.
C7_ErrorIffNotSent ==
    /\ result.returned =>
          /\ result.error.some <=> ~result.sent
          /\ ~CredsPresent => result.error = Some("SMTP not configured")
          /\ (CredsPresent /\ ~result.sent) => ConnectionOpened
    /\ Answered200 =>
          /\ response.body.error = result.error
          /\ response.body.email_dispatched = result.sent
          /\ response.body.error.some <=> ~response.body.email_dispatched

C7_Witness ==
    /\ Answered200
    /\ ~CredsPresent
    /\ response.body.error = Some("SMTP not configured")

\* C8 as claimed: a payload whose name is empty is rejected at validation,
\* before any side effect, even when its email is valid.
C8_EmptyNameRejected ==
    (pc # "idle" /\ payload.name = Some(""))
        => (pc = "done" /\ response.status = 422 /\ trace = <<>>)

\* C8 as amended: a payload whose name is missing is rejected at validation,
\* before any side effect, even when its email is valid; a payload whose name
\* is the empty string is accepted when its email is valid, and reaches the
\* persist attempt and the dispatch attempt.
C8_MissingNameRejected ==
    /\ (pc # "idle" /\ ~payload.name.some)
          => /\ pc = "done"
             /\ response.status = 422
             /\ trace = <<>>
             /\ persisted = "none"
             /\ ~stored.some
             /\ conn = "none"
    /\ (pc = "done" /\ payload.name = Some("") /\ payload.email.some
            /\ EmailSyntaxOK(payload.email.val))
          => /\ response.status # 422
             /\ Called("create_document")
             /\ Called("send_email")

C8_Witness ==
    /\ pc = "done"
    /\ payload.name = Some("")
    /\ payload.email = Some(<<"a", "@", "a", ".", "a">>)
    /\ stored = Some(payload)
    /\ Called("send_email")
    /\ response.status = 200

\* C9: a dispatch attempt opens at most one connection and submits at most
\* one message, no step is retried, and no connection is open once
\* send_email has returned, on the success path and on every failure path.
C9_ConnectionScoped ==
    /\ TimesCalled("SMTP_SSL") + TimesCalled("SMTP") <= 1
    /\ TimesCalled("sendmail") <= 1
    /\ TimesCalled("login") <= 1
    /\ TimesCalled("send_email") <= 1
    /\ conn = "open" => pc \in {"ehlo", "starttls", "login", "sendmail", "exit"}
    /\ (result.returned \/ pc \in {"compose", "done", "idle"}) => conn # "open"

C9_Witness ==
    /\ pc = "done"
    /\ conn = "closed"
    /\ Called("login")
    /\ ~Called("sendmail")
    /\ result.returned
    /\ ~result.sent

====
